---- MODULE Spec2Model ----
(***************************************************************************)
(* Model of scripts/caculate_profit.py: the cross-venue spread monitor.    *)
(*                                                                         *)
(* Two asyncio tasks run on one event loop: watch_all_tickers (the engine  *)
(* loop) and get_high_spread (the consumer).  A task is only ever          *)
(* suspended at an await that really waits, so one action of this model    *)
(* is the code a task runs between two such points:                        *)
(*   - the await of asyncio.gather in subscribe_tickers (line 37),         *)
(*   - the await of asyncio.sleep in the except branch (line 106),         *)
(*   - the await of high_spread_queue.get in the consumer (line 161).      *)
(* format_ticker_status has no await in its body and the put on a queue    *)
(* without maxsize never waits, so neither is a suspension point.          *)
(*                                                                         *)
(* Symbols are numbered 1, 2, ... in the order in which list(set) yields   *)
(* them; a price is an integer number of price units; a float percentage   *)
(* is the exact fraction [num, den] in lowest terms; Python's None is the  *)
(* empty tuple and a present price p the one-tuple <<p>>.                  *)
(***************************************************************************)
EXTENDS Integers, Sequences, FiniteSets, TLC

VARIABLES
    exchanges,          \* which market universe load_markets loaded (line 53-54)
    price_cache,        \* symbol -> (exchange_name -> last), line 57
    tickers_dict,       \* keys of the shallow copy price_cache.copy(), line 62
    spread_data,        \* line 65, ranked at line 91
    high_spread_data,   \* line 66
    last_time,          \* line 51
    high_spread_queue,  \* line 7
    tasks,              \* exchange_name -> state of its watch_tickers call, line 31-35
    pc,                 \* where watch_all_tickers is suspended
    now,                \* the wall clock read by time.time()
    cycle,              \* number of loop iterations started
    cycle_log,          \* history: what each completed cycle saw at the gate
    emitted,            \* history: the status tables printed, with their time
    produced,           \* history: the batches put on high_spread_queue
    received,           \* history: the batches printed by get_high_spread
    joined,             \* history: the batch names written by each successful join
    call,               \* a function of the program called on its own: name, arguments
    result              \* what that call returned, <<>> before it returns

vars == <<exchanges, price_cache, tickers_dict, spread_data, high_spread_data,
          last_time, high_spread_queue, tasks, pc, now, cycle, cycle_log,
          emitted, produced, received, joined, call, result>>

----------------------------------------------------------------------------
(* Bounds of the model *)

\* loop iterations explored
MaxCycles == 2
\* symbols of the large universe that all four venues list as linear swaps
FullSymbols == 41
\* value of time.time() when the loop starts
StartTime == 1000
\* symbols of the catalogs get_common_pairs is called on by itself
MaxSymbol == 2
\* largest price the spread of one pair is computed on by itself
MaxPrice == 12

(* Constants of the program *)

MinSpreadRecords == 250
MinHighSpread == 3
BatchSize == 3
StatusRows == 10
StatusInterval == 60
RecoveryPause == 5
\* line 7: asyncio.Queue() is made with the default maxsize, 0
maxsize == 0

exchange_list == <<"binance", "okx", "bybit", "bitget">>

----------------------------------------------------------------------------
(* Values *)

None == <<>>
Some(p) == <<p>>
EmptyDict == <<>>

Abs(n) == IF n < 0 THEN 0 - n ELSE n

RECURSIVE Gcd(_, _)
Gcd(a, b) == IF b = 0 THEN a ELSE Gcd(b, a % b)

\* the float n / d, kept exact: lowest terms, positive denominator
Frac(n, d) ==
    LET g == Gcd(Abs(n), Abs(d))
        s == IF d < 0 THEN 0 - 1 ELSE 1
    IN [num |-> s * (n \div g), den |-> s * (d \div g)]

FracAbs(f) == [num |-> Abs(f.num), den |-> f.den]
FracGreater(f, g) == f.num * g.den > g.num * f.den

\* dict.get(key, default)
Get(dict, key, default) == IF key \in DOMAIN dict THEN dict[key] ELSE default

\* dict[key] = value
Put(dict, key, value) ==
    [k \in DOMAIN dict \cup {key} |-> IF k = key THEN value ELSE dict[k]]

----------------------------------------------------------------------------
(* The environment: the markets ccxt loads and the tickers it streams *)

Universes == {"large", "small"}

Linear == {"swap", "linear"}

\* markets[symbol] is the set of flags that are truthy in the market entry
LargeMarkets ==
    [e \in {"binance", "okx", "bybit", "bitget"} |->
        CASE e \in {"binance", "okx"} ->
                [s \in 1..(FullSymbols + 2) |-> Linear]
          [] e = "bybit" ->
                [s \in 1..(FullSymbols + 2) |->
                    IF s <= FullSymbols + 1 THEN Linear ELSE {"spot"}]
          [] e = "bitget" ->
                [s \in 1..(FullSymbols + 1) |->
                    IF s <= FullSymbols THEN Linear ELSE {"swap", "inverse"}]]

SmallMarkets ==
    [e \in {"binance", "okx", "bybit", "bitget"} |->
        CASE e = "binance" -> [s \in 1..3 |-> Linear]
          [] e = "okx" -> [s \in 1..3 |-> IF s <= 2 THEN Linear ELSE {"swap", "inverse"}]
          [] e = "bybit" -> [s \in 1..1 |-> {"spot"}]
          [] e = "bitget" -> [s \in 1..2 |-> IF s = 1 THEN Linear ELSE {"spot"}]]

Markets(universe) == IF universe = "large" THEN LargeMarkets ELSE SmallMarkets

\* the batches a venue's stream may resolve to, by name
Feeds(universe, e) ==
    IF universe = "large"
    THEN CASE e = "binance" -> {"flat", "hot1", "hot5", "rank"}
           [] e = "bitget" -> {"zero"}
           [] OTHER -> {"flat"}
    ELSE CASE e = "binance" -> {"hot1"}
           [] e = "okx" -> {"zero", "partial"}
           [] OTHER -> {"flat", "null"}

\* whether the named batch carries a ticker for the symbol
Streams(feed, s) == feed # "partial" \/ s = 1

\* the last price of one symbol in the named batch
LastPrice(feed, s) ==
    CASE feed = "flat" -> Some(1000)
      [] feed = "hot1" -> IF s = 1 THEN Some(1010) ELSE Some(1000)
      [] feed = "rank" -> IF s = 1 THEN Some(1010)
                          ELSE IF s = 2 THEN Some(1020) ELSE Some(1000)
      [] feed = "hot5" -> IF s \in {1, FullSymbols + 1} THEN Some(1010)
                          ELSE IF s = FullSymbols + 2 THEN None ELSE Some(1000)
      [] feed = "zero" -> IF s = 2 THEN Some(0) ELSE Some(1004)
      [] feed = "partial" -> Some(1020)
      [] feed = "null" -> IF s = 1 THEN None ELSE Some(1000)

----------------------------------------------------------------------------
(* Pure functions of the program *)

\* the order in which a dict or a set of symbols is iterated
SymbolOrder == [i \in 1..(FullSymbols + 2) |-> i]

ListOf(symbols) ==
    LET Member(s) == s \in symbols
    IN SelectSeq(SymbolOrder, Member)

\* the filter that asks for a swap only
LinearSwaps_swap(markets) ==
    {symbol \in DOMAIN markets : "swap" \in markets[symbol]}

\* line 19, 22, 33: the symbols whose market is both swap and linear
LinearSwaps(markets) ==
    {symbol \in DOMAIN markets :
        "swap" \in markets[symbol] /\ "linear" \in markets[symbol]}

get_common_pairs(exchange_1, exchange_2) ==
    ListOf(LinearSwaps(exchange_1) \cap LinearSwaps(exchange_2))

\* what exchange.watch_tickers(symbols) resolves to for the named batch; a call
\* that has not delivered has no tickers
TickerData(universe, e, feed) ==
    IF feed \in Feeds(universe, e)
    THEN [symbol \in {s \in LinearSwaps(Markets(universe)[e]) : Streams(feed, s)} |->
             [last |-> LastPrice(feed, symbol)]]
    ELSE EmptyDict

\* the percentage taken of the first price
SpreadPercent_first(spread, price_2) ==
    IF price_2 # 0 THEN Frac(spread * 100, spread + price_2) ELSE Frac(0, 1)

\* the guard that falls back to 100 percent
SpreadPercent_hundred(spread, price_2) ==
    IF price_2 # 0 THEN Frac(spread * 100, price_2) ELSE Frac(100, 1)

\* line 83
SpreadPercent(spread, price_2) ==
    IF price_2 # 0 THEN Frac(spread * 100, price_2) ELSE Frac(0, 1)

\* line 82-84
SpreadRecord(symbol, exchange_1_name, exchange_2_name, price_1, price_2) ==
    LET spread == price_1 - price_2
    IN <<symbol, exchange_1_name, exchange_2_name, price_1, price_2, spread,
         SpreadPercent(spread, price_2)>>

\* line 87: abs(spread_percent) > 0.5
IsHighSpread(record) == FracGreater(FracAbs(record[7]), Frac(1, 2))

\* both loops over every venue: each pair of different venues in both orders
IndexPairs_both(n) ==
    LET all == [k \in 1..(n * n) |-> <<((k - 1) \div n) + 1, ((k - 1) % n) + 1>>]
        Different(p) == p[1] # p[2]
    IN SelectSeq(all, Different)

\* line 69-70: the index pairs (i, j), i < j, in loop order
IndexPairs(n) ==
    LET all == [k \in 1..(n * n) |-> <<((k - 1) \div n) + 1, ((k - 1) % n) + 1>>]
        Ordered(p) == p[1] < p[2]
    IN SelectSeq(all, Ordered)

RECURSIVE Flatten(_)
Flatten(seqs) == IF seqs = <<>> THEN <<>> ELSE Head(seqs) \o Flatten(Tail(seqs))

\* the copy taken before the join: the keys the table had when the cycle began
Snapshot_stale(cache) == DOMAIN price_cache

\* line 62: price_cache.copy(), a shallow copy: the keys of the table at this
\* moment, each with the inner dict the table holds
Snapshot(cache) == DOMAIN cache

\* line 78-79: tickers_dict.get(symbol, {}).get(exchange_name, None); the copy is
\* shallow, so the inner dict is the one price_cache holds
Lookup(cache, keys, symbol, exchange_name) ==
    Get(IF symbol \in keys THEN cache[symbol] ELSE EmptyDict, exchange_name, None)

\* line 75-84: the records of one venue pair, in discovery order
PairRecords(markets, cache, keys, exchange_1_name, exchange_2_name) ==
    LET common_pairs == get_common_pairs(markets[exchange_1_name], markets[exchange_2_name])
        Priced(symbol) ==
            /\ Lookup(cache, keys, symbol, exchange_1_name) # None
            /\ Lookup(cache, keys, symbol, exchange_2_name) # None
        priced == SelectSeq(common_pairs, Priced)
    IN [k \in 1..Len(priced) |->
            SpreadRecord(priced[k], exchange_1_name, exchange_2_name,
                         Lookup(cache, keys, priced[k], exchange_1_name)[1],
                         Lookup(cache, keys, priced[k], exchange_2_name)[1])]

\* line 65-88: spread_data before it is sorted
SpreadRecords(exchange_names, markets, cache, keys) ==
    LET pairs == IndexPairs(Len(exchange_names))
    IN Flatten([k \in 1..Len(pairs) |->
            PairRecords(markets, cache, keys,
                        exchange_names[pairs[k][1]], exchange_names[pairs[k][2]])])

\* line 87-88: high_spread_data, appended in the same loop
HighSpreadRecords(records) == SelectSeq(records, IsHighSpread)

SortKey(record) == FracAbs(record[7])

Keys(records) == {SortKey(records[k]) : k \in 1..Len(records)}

MaxKey(keys) == CHOOSE f \in keys : \A g \in keys : ~FracGreater(g, f)

\* line 91: list.sort(key=lambda x: abs(x[6]), reverse=True), a stable sort:
\* the records of the largest key in their order, then those of the next key
RECURSIVE SortByKeys(_, _)
SortByKeys(records, keys) ==
    IF keys = {} THEN <<>>
    ELSE LET top == MaxKey(keys)
             HasTop(record) == SortKey(record) = top
         IN SelectSeq(records, HasTop) \o SortByKeys(records, keys \ {top})

\* the ascending sort read backwards: records of equal key come out in reverse
Ranked_reversed(records) ==
    SortByKeys([k \in 1..Len(records) |-> records[Len(records) + 1 - k]], Keys(records))

Ranked(records) == SortByKeys(records, Keys(records))

\* seq[:n]
Take(seq, n) == SubSeq(seq, 1, IF Len(seq) < n THEN Len(seq) ELSE n)

\* line 109-151: three heading lines, then one line per record
format_ticker_status(records) == <<"title", "header", "rule">> \o records

\* the status printed in every cycle
StatusDue_always(current_time, last) == TRUE

\* line 95
StatusDue(current_time, last) == current_time - last >= StatusInterval

\* the gate with "or" for "and"
Significant_either(records, high_records) ==
    Len(records) >= MinSpreadRecords \/ Len(high_records) >= MinHighSpread

\* the gate on the number of records alone
Significant_total(records, high_records) == Len(records) >= MinSpreadRecords

\* line 101
Significant(records, high_records) ==
    Len(records) >= MinSpreadRecords /\ Len(high_records) >= MinHighSpread

\* the queue made with maxsize 1
QueueFull_one(queue) == Len(queue) >= 1

\* line 102: Queue.full(), which put waits on: never with maxsize <= 0
QueueFull(queue) == maxsize > 0 /\ Len(queue) >= maxsize

\* the item put at the front
QueuePut_front(queue, item) == <<item>> \o queue

\* a queue of maxsize 1 that drops what does not fit
QueuePut_bounded(queue, item) == IF Len(queue) >= 1 THEN queue ELSE Append(queue, item)

\* line 102: Queue.put on a queue without maxsize appends at once
QueuePut(queue, item) == Append(queue, item)

\* line 31-35: the venues a watch_tickers call is made for, in dict order
TaskNames(exchange_names, markets) ==
    LET HasSymbols(e) == LinearSwaps(markets[e]) # {}
    IN SelectSeq(exchange_names, HasSymbols)

\* the gather with return_exceptions: it resolves when every call has settled
GatherResolved_settled(t) == \A e \in DOMAIN t : t[e] # "pending"

\* the wait for the first call that delivers
GatherResolved_first(t) == \E e \in DOMAIN t : t[e] \notin {"pending", "raised"}

\* line 37: gather resolves when every awaited call has delivered
GatherResolved(t) == \A e \in DOMAIN t : t[e] \notin {"pending", "raised"}

\* line 37: gather raises as soon as one awaited call has raised
GatherRaised(t) == \E e \in DOMAIN t : t[e] = "raised"

\* line 41-44: one venue's batch written under that venue's name
WriteTickers(cache, exchange_name, ticker_data) ==
    [symbol \in DOMAIN cache \cup DOMAIN ticker_data |->
        IF symbol \in DOMAIN ticker_data
        THEN Put(Get(cache, symbol, EmptyDict), exchange_name, ticker_data[symbol].last)
        ELSE cache[symbol]]

\* the results zipped with the configured venues instead of the awaited ones
WriteResults_configured(cache, names, results) ==
    LET RECURSIVE Written(_)
        Written(k) ==
            IF k = 0 THEN cache
            ELSE WriteTickers(Written(k - 1), exchange_list[k], results[k])
    IN Written(Len(results))

\* line 40-44: zip(tasks.keys(), results), written in task order
RECURSIVE WriteResults(_, _, _)
WriteResults(cache, names, results) ==
    IF names = <<>> \/ results = <<>> THEN cache
    ELSE WriteResults(WriteTickers(cache, Head(names), Head(results)),
                      Tail(names), Tail(results))

----------------------------------------------------------------------------
(* The state machine *)

\* the time a join may take
Elapsed == {1, StatusInterval}

Init ==
    /\ exchanges \in Universes
    /\ price_cache = EmptyDict
    /\ tickers_dict = {}
    /\ spread_data = <<>>
    /\ high_spread_data = <<>>
    /\ last_time = 0
    /\ high_spread_queue = <<>>
    /\ tasks = EmptyDict
    /\ pc = "subscribe"
    /\ now = StartTime
    /\ cycle = 0
    /\ cycle_log = <<>>
    /\ emitted = <<>>
    /\ produced = <<>>
    /\ received = <<>>
    /\ joined = <<>>
    /\ call = <<>>
    /\ result = <<>>

\* line 59-37: a loop iteration starts and calls watch_tickers on every venue that
\* has symbols, then awaits the gather
Subscribe ==
    /\ pc = "subscribe"
    /\ cycle < MaxCycles
    /\ LET names == TaskNames(exchange_list, Markets(exchanges))
       IN tasks' = [e \in {names[k] : k \in 1..Len(names)} |-> "pending"]
    /\ pc' = "gather"
    /\ cycle' = cycle + 1
    /\ UNCHANGED <<call, result, exchanges, price_cache, tickers_dict, spread_data, high_spread_data,
                   last_time, high_spread_queue, now, cycle_log, emitted, produced,
                   received, joined>>

\* a venue's batch is written to the table as soon as its call resolves
TickerBatch_writes(e, feed) ==
    /\ pc = "gather"
    /\ ~GatherRaised(tasks)
    /\ e \in DOMAIN tasks
    /\ tasks[e] = "pending"
    /\ feed \in Feeds(exchanges, e)
    /\ tasks' = [tasks EXCEPT ![e] = feed]
    /\ price_cache' = WriteTickers(price_cache, e, TickerData(exchanges, e, feed))
    /\ UNCHANGED <<call, result, exchanges, tickers_dict, spread_data, high_spread_data,
                   last_time, high_spread_queue, pc, now, cycle, cycle_log, emitted,
                   produced, received, joined>>

\* a venue's watch_tickers call resolves with a batch (once a call has raised the
\* gather is settled, and what the other calls do is never read)
TickerBatch(e, feed) ==
    /\ pc = "gather"
    /\ ~GatherRaised(tasks)
    /\ e \in DOMAIN tasks
    /\ tasks[e] = "pending"
    /\ feed \in Feeds(exchanges, e)
    /\ tasks' = [tasks EXCEPT ![e] = feed]
    /\ UNCHANGED <<call, result, exchanges, price_cache, tickers_dict, spread_data, high_spread_data,
                   last_time, high_spread_queue, pc, now, cycle, cycle_log, emitted,
                   produced, received, joined>>

\* a venue's watch_tickers call raises
FeedError(e) ==
    /\ pc = "gather"
    /\ ~GatherRaised(tasks)
    /\ e \in DOMAIN tasks
    /\ tasks[e] = "pending"
    /\ tasks' = [tasks EXCEPT ![e] = "raised"]
    /\ UNCHANGED <<call, result, exchanges, price_cache, tickers_dict, spread_data, high_spread_data,
                   last_time, high_spread_queue, pc, now, cycle, cycle_log, emitted,
                   produced, received, joined>>

\* line 37-102: the gather resolves; the batches are written, the table is copied,
\* the records are computed and ranked, the status is printed when due and the
\* batch is put when the cycle is significant (a put waits while the queue is full)
Cycle(d) ==
    /\ pc = "gather"
    /\ GatherResolved(tasks)
    /\ LET markets == Markets(exchanges)
           names == TaskNames(exchange_list, markets)
           results == [k \in 1..Len(names) |->
                          TickerData(exchanges, names[k], tasks[names[k]])]
       IN /\ price_cache' = WriteResults(price_cache, names, results)
          /\ tickers_dict' = Snapshot(price_cache')
          /\ \E records \in {SpreadRecords(exchange_list, markets, price_cache', tickers_dict')} :
                /\ high_spread_data' = HighSpreadRecords(records)
                /\ spread_data' = Ranked(records)
    /\ now' = now + d
    /\ IF StatusDue(now', last_time)
       THEN /\ emitted' = Append(emitted,
                    [time |-> now',
                     status |-> format_ticker_status(Take(spread_data', StatusRows))])
            /\ last_time' = now'
       ELSE UNCHANGED <<emitted, last_time>>
    /\ IF Significant(spread_data', high_spread_data')
       THEN /\ ~QueueFull(high_spread_queue)
            /\ high_spread_queue' =
                    QueuePut(high_spread_queue, Take(high_spread_data', BatchSize))
            /\ produced' = Append(produced, Take(high_spread_data', BatchSize))
       ELSE UNCHANGED <<high_spread_queue, produced>>
    /\ cycle_log' = Append(cycle_log,
                           [cycle |-> cycle, total |-> Len(spread_data'),
                            high |-> Len(high_spread_data')])
    /\ joined' = Append(joined, tasks)
    /\ pc' = "subscribe"
    /\ tasks' = EmptyDict
    /\ UNCHANGED <<call, result, exchanges, cycle, received>>

\* the except branch that also starts again from an empty table
CycleError_recreate ==
    /\ pc = "gather"
    /\ GatherRaised(tasks)
    /\ pc' = "sleep"
    /\ price_cache' = EmptyDict
    /\ UNCHANGED <<call, result, exchanges, tickers_dict, spread_data, high_spread_data,
                   last_time, high_spread_queue, tasks, now, cycle, cycle_log, emitted,
                   produced, received, joined>>

\* line 37, 104-106: the gather raises; the error is printed and the loop sleeps
\* (the calls gather was awaiting are not cancelled; their results are never read)
CycleError ==
    /\ pc = "gather"
    /\ GatherRaised(tasks)
    /\ pc' = "sleep"
    /\ UNCHANGED <<call, result, exchanges, price_cache, tickers_dict, spread_data, high_spread_data,
                   last_time, high_spread_queue, tasks, now, cycle, cycle_log, emitted,
                   produced, received, joined>>

\* the except branch that leaves the loop after the sleep
Recover_giveup ==
    /\ pc = "sleep"
    /\ pc' = "stopped"
    /\ now' = now + RecoveryPause
    /\ tasks' = EmptyDict
    /\ UNCHANGED <<call, result, exchanges, price_cache, tickers_dict, spread_data, high_spread_data,
                   last_time, high_spread_queue, cycle, cycle_log, emitted,
                   produced, received, joined>>

\* line 106, 59: the sleep is over and the loop goes round; nothing refers to the
\* calls of the failed cycle any more
Recover ==
    /\ pc = "sleep"
    /\ pc' = "subscribe"
    /\ now' = now + RecoveryPause
    /\ tasks' = EmptyDict
    /\ UNCHANGED <<call, result, exchanges, price_cache, tickers_dict, spread_data, high_spread_data,
                   last_time, high_spread_queue, cycle, cycle_log, emitted,
                   produced, received, joined>>

\* the consumer that returns after its first batch
get_high_spread_once ==
    /\ high_spread_queue # <<>>
    /\ received = <<>>
    /\ received' = Append(received, Head(high_spread_queue))
    /\ high_spread_queue' = Tail(high_spread_queue)
    /\ UNCHANGED <<call, result, exchanges, price_cache, tickers_dict, spread_data,
                   high_spread_data, last_time, tasks, pc, now, cycle, cycle_log,
                   emitted, produced, joined>>

\* line 160-162: the consumer receives one batch and prints it
get_high_spread ==
    /\ high_spread_queue # <<>>
    /\ received' = Append(received, Head(high_spread_queue))
    /\ high_spread_queue' = Tail(high_spread_queue)
    /\ UNCHANGED <<call, result, exchanges, price_cache, tickers_dict, spread_data, high_spread_data,
                   last_time, tasks, pc, now, cycle, cycle_log, emitted, produced,
                   joined>>

Venues == {exchange_list[k] : k \in 1..Len(exchange_list)}

FeedNames == UNION {Feeds(u, e) : u \in Universes, e \in Venues}

Next ==
    \/ Subscribe
    \/ \E e \in Venues, feed \in FeedNames : TickerBatch(e, feed)
    \/ \E e \in Venues : FeedError(e)
    \/ \E d \in Elapsed : Cycle(d)
    \/ CycleError
    \/ Recover
    \/ get_high_spread

Spec == Init /\ [][Next]_vars

\* the flags of a market entry: each of swap and linear truthy or not
Flags == SUBSET Linear

\* markets dicts over the symbols 1..MaxSymbol, any of them absent
Catalogs == UNION {[symbols -> Flags] : symbols \in SUBSET (1..MaxSymbol)}

Prices == 0..MaxPrice

\* the calls of get_common_pairs and of the spread computation explored
Calls ==
    [fn : {"get_common_pairs"}, exchange_1 : Catalogs, exchange_2 : Catalogs]
        \cup [fn : {"spread"}, price_1 : Prices, price_2 : Prices]

\* the functions are called before the loop is started
PureInit ==
    /\ call \in Calls
    /\ result = <<>>
    /\ exchanges = "small"
    /\ price_cache = EmptyDict
    /\ tickers_dict = {}
    /\ spread_data = <<>>
    /\ high_spread_data = <<>>
    /\ last_time = 0
    /\ high_spread_queue = <<>>
    /\ tasks = EmptyDict
    /\ pc = "subscribe"
    /\ now = StartTime
    /\ cycle = 0
    /\ cycle_log = <<>>
    /\ emitted = <<>>
    /\ produced = <<>>
    /\ received = <<>>
    /\ joined = <<>>

\* line 16-24: get_common_pairs returns
CallCommonPairs ==
    /\ call.fn = "get_common_pairs"
    /\ result = <<>>
    /\ result' = <<get_common_pairs(call.exchange_1, call.exchange_2)>>
    /\ UNCHANGED <<call, exchanges, price_cache, tickers_dict, spread_data,
                   high_spread_data, last_time, high_spread_queue, tasks, pc, now,
                   cycle, cycle_log, emitted, produced, received, joined>>

\* line 82-84: the record of symbol 1 on binance and okx, and the record the same
\* prices give with the venues the other way round
CallSpreadRecord ==
    /\ call.fn = "spread"
    /\ result = <<>>
    /\ result' = <<SpreadRecord(1, "binance", "okx", call.price_1, call.price_2),
                   SpreadRecord(1, "okx", "binance", call.price_2, call.price_1)>>
    /\ UNCHANGED <<call, exchanges, price_cache, tickers_dict, spread_data,
                   high_spread_data, last_time, high_spread_queue, tasks, pc, now,
                   cycle, cycle_log, emitted, produced, received, joined>>

PureNext == CallCommonPairs \/ CallSpreadRecord

PureSpec == PureInit /\ [][PureNext]_vars

\* the event loop runs every task that is ready: a timer that has expired wakes the
\* sleeper, a task that can go on does, and a non-empty queue wakes the consumer
FairSpec ==
    /\ Spec
    /\ WF_vars(Recover)
    /\ WF_vars(Subscribe)
    /\ WF_vars(CycleError)
    /\ WF_vars(get_high_spread)

----------------------------------------------------------------------------
(* The claims *)

\* the step in which a cycle runs from the resolved gather to the end of the try body
CycleCompletes == pc = "gather" /\ pc' = "subscribe"

\* the step in which one item is appended to high_spread_queue
PutsOne ==
    /\ Len(high_spread_queue') = Len(high_spread_queue) + 1
    /\ SubSeq(high_spread_queue', 1, Len(high_spread_queue)) = high_spread_queue

\* C1: a cycle puts a batch on high_spread_queue exactly when it reaches the gate
\* with at least 250 records and at least 3 high-spread records; a cycle that does
\* not (it raised, or it has fewer records) leaves the queue as it is, and no step
\* adds more than one batch.
C1_SignificanceGate ==
    [][/\ PutsOne <=> (/\ CycleCompletes
                       /\ Len(spread_data') >= 250
                       /\ Len(high_spread_data') >= 3)
       /\ (pc = "gather" /\ pc' # "gather" /\ ~PutsOne) =>
              high_spread_queue' = high_spread_queue
       /\ Len(high_spread_queue') <= Len(high_spread_queue) + 1]_vars

\* a cycle of 249 records, 5 of them high-spread, has put nothing and the next one,
\* of 250 records and 3 high-spread ones, has put the only batch
C1_Witness ==
    /\ Len(cycle_log) = 2
    /\ cycle_log[1].total = 249 /\ cycle_log[1].high = 5
    /\ cycle_log[2].total = 250 /\ cycle_log[2].high = 3
    /\ Len(spread_data) = 250 /\ Len(high_spread_data) = 3
    /\ high_spread_queue = <<high_spread_data>>

\* C2: the batch a significant cycle puts is the first three records of the ranked
\* list, that is the three high-spread records of largest |spread_percent|, in
\* ranking order.
C2_BatchIsTopThree ==
    [][PutsOne => high_spread_queue'[Len(high_spread_queue')] = Take(spread_data', 3)]_vars

ValidRecord(record) ==
    /\ record[4] \in Nat /\ record[5] \in Nat
    /\ record[6] = record[4] - record[5]
    /\ 2 * Abs(record[7].num) > record[7].den

ValidBatch(batch) ==
    /\ Len(batch) \in 1..3
    /\ \A k \in 1..Len(batch) : Len(batch[k]) = 7 /\ ValidRecord(batch[k])

SomeVenueRaised == pc = "gather" /\ \E e \in DOMAIN tasks : tasks[e] = "raised"

\* a cycle has just started: every watch_tickers call is awaited and none is settled
CycleStarted == pc = "gather" /\ \A e \in DOMAIN tasks : tasks[e] = "pending"

\* C4: an exception that escapes the cycle body never ends the loop: the loop goes
\* to sleep, sleeps 5 seconds and then starts the next cycle, however many cycles
\* have failed before (within the cycles explored).
C4_Resilience ==
    /\ [][(SomeVenueRaised /\ pc' # pc) => pc' = "sleep"]_vars
    /\ [][(pc = "sleep" /\ pc' # pc) => (pc' = "subscribe" /\ now' - now >= 5)]_vars
    /\ (SomeVenueRaised /\ cycle < MaxCycles) ~> CycleStarted

\* the first cycle failed and, 5 seconds later, the second one is running
C4_Witness ==
    /\ pc = "gather" /\ cycle = 2
    /\ cycle_log = <<>>
    /\ now = StartTime + 5

\* C5: when a venue's watch_tickers call has raised, the cycle ends in the except
\* branch: no table write, no snapshot, no records, no status and no batch, whatever
\* the other venues delivered.
C5_FeedErrorAbortsCycle ==
    [][(SomeVenueRaised /\ pc' # pc) =>
          /\ pc' = "sleep"
          /\ UNCHANGED <<price_cache, tickers_dict, spread_data, high_spread_data,
                         last_time, emitted, high_spread_queue, produced, cycle_log>>]_vars

\* the first cycle was aborted although some venue had delivered its batch
C5_Witness ==
    /\ pc = "sleep"
    /\ \E e \in DOMAIN tasks : tasks[e] = "raised"
    /\ \E e \in DOMAIN tasks : tasks[e] \in Feeds(exchanges, e)
    /\ price_cache = EmptyDict /\ emitted = <<>> /\ cycle_log = <<>>

HasEntry(cache, s, e) == s \in DOMAIN cache /\ e \in DOMAIN cache[s]

\* the batches venue e had delivered to the joins that succeeded, oldest first
WrittenBy(e) ==
    [i \in 1..Len(joined) |-> TickerData(exchanges, e, Get(joined[i], e, "pending"))]

\* venue e's entries are those of the symbols it delivered and that were written,
\* each with the price of the latest batch that carried the symbol
ColumnIsLatestWrite(e) ==
    \A written \in {WrittenBy(e)} :
        /\ \A s \in DOMAIN price_cache :
              e \in DOMAIN price_cache[s] =>
                  \E i \in 1..Len(written) : s \in DOMAIN written[i]
        /\ \A i \in 1..Len(written) : \A s \in DOMAIN written[i] :
              (\A j \in (i + 1)..Len(written) : s \notin DOMAIN written[j]) =>
                  /\ HasEntry(price_cache, s, e)
                  /\ price_cache[s][e] = written[i][s].last

\* C6: an entry of price_cache is never removed, whatever cycles succeed or fail; it
\* holds the price of the latest write for its key, and it exists only for a symbol
\* its venue has delivered.
C6_PriceTableMonotone ==
    /\ [][\A s \in DOMAIN price_cache : \A e \in DOMAIN price_cache[s] :
             HasEntry(price_cache', s, e)]_vars
    /\ [](\A e \in Venues : ColumnIsLatestWrite(e))

\* a price written in the first cycle is still there after a second, failed cycle,
\* and an entry the second batch of its venue did not carry keeps its older price
C6_Witness ==
    \/ /\ pc = "sleep" /\ cycle = 2
       /\ HasEntry(price_cache, 1, "binance")
    \/ /\ Len(joined) = 2
       /\ joined[1]["okx"] = "zero" /\ joined[2]["okx"] = "partial"
       /\ price_cache[2]["okx"] = Some(0) /\ price_cache[1]["okx"] = Some(1020)

\* C7: the table is copied only when every venue with a linear swap symbol has
\* delivered its batch of the cycle; a venue without one has no awaited call and
\* the cycle completes without it.
C7_JoinBeforeRead ==
    [][CycleCompletes =>
          \A e \in Venues :
             IF LinearSwaps(Markets(exchanges)[e]) # {}
             THEN e \in DOMAIN tasks /\ tasks[e] \in Feeds(exchanges, e)
             ELSE e \notin DOMAIN tasks]_vars

\* a cycle has completed in the universe where bybit has no linear swap symbol
C7_Witness ==
    /\ exchanges = "small"
    /\ cycle_log # <<>>
    /\ tickers_dict # {}
    /\ LinearSwaps(Markets(exchanges)["bybit"]) = {}

\* C8: the batches the consumer has received, followed by the batches still queued,
\* are the batches the engine loop has put, in the order it put them.
C8_FifoDelivery == produced = received \o high_spread_queue

\* the consumer has received two different batches
C8_Witness ==
    /\ Len(received) = 2
    /\ received[1] # received[2]
    /\ produced = received

\* the cycles so far that passed the gate
SignificantCycles ==
    {i \in 1..Len(cycle_log) : cycle_log[i].total >= 250 /\ cycle_log[i].high >= 3}

\* C9 as stated: some fixed capacity bounds the number of batches held; here any
\* capacity below the number of cycles explored.
C9_BoundedHandoff ==
    \E capacity \in 0..(MaxCycles - 1) : Len(high_spread_queue) <= capacity

\* C9 as amended: high_spread_queue has no capacity: it holds one batch for every
\* cycle that passed the gate and has not been received yet, so with a consumer that
\* receives nothing it holds as many batches as cycles have passed the gate.
C9_UnboundedHandoff ==
    Len(high_spread_queue) = Cardinality(SignificantCycles) - Len(received)

\* every cycle explored has passed the gate and nothing has been received
C9_Witness ==
    /\ received = <<>>
    /\ Len(cycle_log) = MaxCycles
    /\ Len(high_spread_queue) = MaxCycles

StatusRecords(status) == SubSeq(status, 4, Len(status))

\* C10: two consecutive status tables are printed at least 60 seconds apart; a table
\* has at most 10 records, the first ones of the ranked list of its cycle.
C10_StatusRateLimit ==
    /\ \A i \in 1..(Len(emitted) - 1) : emitted[i + 1].time - emitted[i].time >= 60
    /\ \A i \in 1..Len(emitted) : Len(StatusRecords(emitted[i].status)) <= 10
    /\ (emitted # <<>> /\ emitted[Len(emitted)].time = now) =>
           /\ Len(spread_data) >= Len(StatusRecords(emitted[Len(emitted)].status))
           /\ StatusRecords(emitted[Len(emitted)].status) =
                  SubSeq(spread_data, 1, Len(StatusRecords(emitted[Len(emitted)].status)))
           /\ Len(StatusRecords(emitted[Len(emitted)].status)) \in {Len(spread_data), 10}

\* a second table of 10 records is printed 60 seconds after the first one, in a
\* cycle that ranked more than 10 records
C10_Witness ==
    /\ Len(emitted) = 2
    /\ emitted[2].time - emitted[1].time = 60
    /\ emitted[2].time = now
    /\ Len(StatusRecords(emitted[2].status)) = 10
    /\ Len(spread_data) > 10

\* a record whose second price is zero
ZeroQuoted(record) == record[5] = 0

\* the venue pairs of exchange_list, first venue before second
VenuePairs ==
    UNION {{<<exchange_list[i], exchange_list[j]>> : j \in (i + 1)..Len(exchange_list)} :
              i \in 1..Len(exchange_list)}

\* C11: when the second price of a pair is zero its record has spread_percent 0
\* whatever the first price is; the record is in the full list of the cycle (every
\* priced pair whose second price is zero has one), it is not a high-spread record,
\* and no batch ever put holds it.
C11_ZeroGuard ==
    [][CycleCompletes =>
          /\ \A k \in 1..Len(spread_data') :
                ZeroQuoted(spread_data'[k]) =>
                    /\ spread_data'[k][7] = [num |-> 0, den |-> 1]
                    /\ \A h \in 1..Len(high_spread_data') :
                          high_spread_data'[h] # spread_data'[k]
          /\ \A pair \in VenuePairs : \A s \in tickers_dict' :
                (/\ s \in LinearSwaps(Markets(exchanges)[pair[1]])
                 /\ s \in LinearSwaps(Markets(exchanges)[pair[2]])
                 /\ pair[1] \in DOMAIN price_cache'[s]
                 /\ pair[2] \in DOMAIN price_cache'[s]
                 /\ price_cache'[s][pair[1]] # None
                 /\ price_cache'[s][pair[2]] = Some(0)) =>
                    \E k \in 1..Len(spread_data') :
                        SubSeq(spread_data'[k], 1, 6) =
                            <<s, pair[1], pair[2], price_cache'[s][pair[1]][1], 0,
                              price_cache'[s][pair[1]][1]>>
          /\ \A b \in 1..Len(produced') : \A k \in 1..Len(produced'[b]) :
                ~ZeroQuoted(produced'[b][k])]_vars

\* a cycle that passed the gate and put its batch counted records whose second
\* price is zero, with first prices 1000 and 1020, among its 250
C11_Witness ==
    /\ produced # <<>>
    /\ Len(spread_data) = 250
    /\ \E k \in 1..Len(spread_data) :
          ZeroQuoted(spread_data[k]) /\ spread_data[k][4] = 1020
    /\ \E k \in 1..Len(spread_data) :
          ZeroQuoted(spread_data[k]) /\ spread_data[k][4] = 1000
    /\ \A h \in 1..Len(high_spread_data) : ~ZeroQuoted(high_spread_data[h])

\* the symbols of a markets dict that are both swap and linear
Qualifying(markets) == {s \in DOMAIN markets : Linear \subseteq markets[s]}

Elements(seq) == {seq[k] : k \in 1..Len(seq)}

\* C12: get_common_pairs returns, without duplicates, exactly the symbols that are
\* linear swaps in both markets dicts: nothing when the two sets are disjoint, the
\* same set with the arguments exchanged, and never a symbol both dicts list but
\* only one lists as a linear swap.
C12_CommonPairs ==
    (call # <<>> /\ call.fn = "get_common_pairs" /\ result # <<>>) =>
        /\ Elements(result[1]) = Qualifying(call.exchange_1) \cap Qualifying(call.exchange_2)
        /\ Len(result[1]) = Cardinality(Elements(result[1]))
        /\ (Qualifying(call.exchange_1) \cap Qualifying(call.exchange_2) = {}) =>
               result[1] = <<>>
        /\ Elements(get_common_pairs(call.exchange_2, call.exchange_1)) = Elements(result[1])
        /\ \A s \in DOMAIN call.exchange_1 \cap DOMAIN call.exchange_2 :
               (s \in Qualifying(call.exchange_1)) # (s \in Qualifying(call.exchange_2)) =>
                   s \notin Elements(result[1])

\* both dicts list symbols 1 and 2; symbol 1 is a linear swap in both and is
\* returned, symbol 2 is one in the first dict only and is left out
C12_Witness ==
    /\ call # <<>> /\ call.fn = "get_common_pairs"
    /\ DOMAIN call.exchange_1 = {1, 2} /\ DOMAIN call.exchange_2 = {1, 2}
    /\ Qualifying(call.exchange_1) = {1, 2} /\ Qualifying(call.exchange_2) = {1}
    /\ "swap" \in call.exchange_2[2]
    /\ result = <<(<<1>>)>>

\* the float f is the quotient n / d
IsQuotient(f, n, d) == f.den > 0 /\ f.num * d = n * f.den

\* C13: for non-zero prices p1 on A and p2 on B the record of (A, B) has
\* spread = p1 - p2 and spread_percent = (p1 - p2) / p2 * 100; the record of (B, A)
\* has the opposite spread and spread_percent = (p2 - p1) / p1 * 100, which is the
\* opposite of the first percentage only when p1 = p2: the percentage is always
\* taken of the second venue's price.
C13_SpreadAsymmetry ==
    (/\ call # <<>> /\ call.fn = "spread" /\ result # <<>>
     /\ call.price_1 # 0 /\ call.price_2 # 0) =>
        /\ result[1][6] = call.price_1 - call.price_2
        /\ IsQuotient(result[1][7], (call.price_1 - call.price_2) * 100, call.price_2)
        /\ result[2][6] = 0 - result[1][6]
        /\ IsQuotient(result[2][7], (call.price_2 - call.price_1) * 100, call.price_1)
        /\ (result[2][7] = [num |-> 0 - result[1][7].num, den |-> result[1][7].den])
               <=> (call.price_1 = call.price_2)

\* prices 12 and 10: 20 percent one way round, -50/3 percent the other way round
C13_Witness ==
    /\ call # <<>> /\ call.fn = "spread"
    /\ call.price_1 = 12 /\ call.price_2 = 10
    /\ result # <<>>
    /\ result[1][6] = 2 /\ result[1][7] = [num |-> 20, den |-> 1]
    /\ result[2][6] = 0 - 2 /\ result[2][7] = [num |-> 0 - 50, den |-> 3]

\* the price the table holds for (symbol, venue): None when it holds none
Held(cache, s, e) == IF HasEntry(cache, s, e) THEN cache[s][e] ELSE None

\* the triples (symbol, venue A, venue B) a cycle has to record: A before B in
\* exchange_list, the symbol a linear swap on both, both prices held and not None
Triples(cache) ==
    {t \in {<<s, pair[1], pair[2]>> : s \in DOMAIN cache, pair \in VenuePairs} :
        /\ t[1] \in Qualifying(Markets(exchanges)[t[2]])
        /\ t[1] \in Qualifying(Markets(exchanges)[t[3]])
        /\ Held(cache, t[1], t[2]) # None
        /\ Held(cache, t[1], t[3]) # None}

\* C14: a cycle that completes records each triple (symbol, venue A, venue B) with
\* A before B in exchange_list, the symbol common to both and both prices in the
\* snapshot exactly once, with the prices of the snapshot, and records nothing else:
\* a triple with a missing price is skipped and the cycle still completes, and no
\* venue pair is taken twice or the other way round.
C14_RecordCoverage ==
    [][CycleCompletes =>
          \A triples \in {Triples(price_cache')} :
             /\ {SubSeq(spread_data'[k], 1, 3) : k \in 1..Len(spread_data')} = triples
             /\ Len(spread_data') = Cardinality(triples)
             /\ \A k \in 1..Len(spread_data') :
                   /\ <<spread_data'[k][4]>> = Held(price_cache', spread_data'[k][1], spread_data'[k][2])
                   /\ <<spread_data'[k][5]>> = Held(price_cache', spread_data'[k][1], spread_data'[k][3])
                   /\ <<spread_data'[k][2], spread_data'[k][3]>> \in VenuePairs
                   /\ <<spread_data'[k][3], spread_data'[k][2]>> \notin VenuePairs]_vars

\* a cycle has completed with 249 records: binance delivered None for the last
\* symbol, which okx quotes, and no record of that symbol was made
C14_Witness ==
    /\ cycle_log # <<>>
    /\ Len(spread_data) = 249
    /\ HasEntry(price_cache, FullSymbols + 2, "binance")
    /\ price_cache[FullSymbols + 2]["binance"] = None
    /\ Held(price_cache, FullSymbols + 2, "okx") # None
    /\ \A k \in 1..Len(spread_data) : spread_data[k][1] # FullSymbols + 2
    /\ Cardinality(VenuePairs) = 6

\* C15: a join writes each venue's batch under that venue's own name: after it the
\* entry of (symbol, venue) holds the price that venue's call delivered for the
\* symbol, an entry the batch did not carry is as it was, and a venue that has no
\* linear swap symbol, which is not awaited, has no entry at all while the venues
\* after it in exchange_list have theirs.
C15_VenueAttribution ==
    [][CycleCompletes =>
          \A e \in Venues :
             IF e \in DOMAIN tasks
             THEN \A data \in {TickerData(exchanges, e, tasks[e])} :
                     /\ \A s \in DOMAIN data :
                           /\ HasEntry(price_cache', s, e)
                           /\ price_cache'[s][e] = data[s].last
                     /\ \A s \in DOMAIN price_cache' \ DOMAIN data :
                           /\ HasEntry(price_cache', s, e) <=> HasEntry(price_cache, s, e)
                           /\ HasEntry(price_cache, s, e) =>
                                 price_cache'[s][e] = price_cache[s][e]
             ELSE \A s \in DOMAIN price_cache' : ~HasEntry(price_cache', s, e)]_vars

\* bybit, the third venue, has no linear swap symbol and was not awaited; the table
\* holds what binance, okx and bitget each delivered, and nothing under bybit
C15_Witness ==
    /\ exchanges = "small"
    /\ joined # <<>>
    /\ DOMAIN joined[Len(joined)] = {"binance", "okx", "bitget"}
    /\ joined[Len(joined)]["okx"] = "zero" /\ joined[Len(joined)]["bitget"] = "flat"
    /\ price_cache[1]["binance"] = Some(1010)
    /\ price_cache[2]["okx"] = Some(0)
    /\ price_cache[1]["bitget"] = Some(1000)
    /\ \A s \in DOMAIN price_cache : ~HasEntry(price_cache, s, "bybit")

\* the records of the list whose |spread_percent| is key, in their order
WithKey(records, key) ==
    LET HasKey(record) == FracAbs(record[7]) = key
    IN SelectSeq(records, HasKey)

\* C16: after line 91 spread_data holds the records the cycle discovered, each once,
\* by non-increasing |spread_percent|; records of equal |spread_percent| are in the
\* order in which they were discovered, and sorting the list again changes nothing.
C16_Ranking ==
    [][CycleCompletes =>
          \A discovered \in {SpreadRecords(exchange_list, Markets(exchanges),
                                           price_cache', tickers_dict')} :
             /\ Len(spread_data') = Len(discovered)
             /\ \A key \in {FracAbs(discovered[k][7]) : k \in 1..Len(discovered)} :
                   WithKey(spread_data', key) = WithKey(discovered, key)
             /\ \A k \in 1..(Len(spread_data') - 1) :
                   ~FracGreater(FracAbs(spread_data'[k + 1][7]), FracAbs(spread_data'[k][7]))
             /\ Ranked(spread_data') = spread_data']_vars

\* the two records of 2 percent come first, binance-okx before binance-bybit as
\* they were discovered, then a record of 1 percent that was discovered before both
C16_Witness ==
    /\ Len(spread_data) = 250
    /\ spread_data[1][7] = [num |-> 2, den |-> 1] /\ spread_data[2][7] = [num |-> 2, den |-> 1]
    /\ spread_data[1][1] = 2 /\ spread_data[1][3] = "okx"
    /\ spread_data[2][1] = 2 /\ spread_data[2][3] = "bybit"
    /\ spread_data[3][1] = 1 /\ spread_data[3][7] = [num |-> 1, den |-> 1]
    /\ spread_data[3][3] = "okx"

\* C17: the table is written only in the step in which a join succeeds, before the
\* copy of line 62; from the copy to the end of the ranking nothing else runs, so
\* the copy has every key of the table, every record of the cycle has the two prices
\* the table holds at the end of that step, every priced triple of that table has
\* its record, and no other step changes the table, the copy or the records.
C17_NoTornSnapshot ==
    [][IF CycleCompletes
       THEN /\ tickers_dict' = DOMAIN price_cache'
            /\ \A k \in 1..Len(spread_data') :
                  /\ Held(price_cache', spread_data'[k][1], spread_data'[k][2]) = Some(spread_data'[k][4])
                  /\ Held(price_cache', spread_data'[k][1], spread_data'[k][3]) = Some(spread_data'[k][5])
            /\ Len(spread_data') = Cardinality(Triples(price_cache'))
            /\ \A h \in 1..Len(high_spread_data') :
                  \E k \in 1..Len(spread_data') : spread_data'[k] = high_spread_data'[h]
       ELSE UNCHANGED <<price_cache, tickers_dict, spread_data, high_spread_data>>]_vars

\* the second join wrote okx's first price for symbol 2 and a new price for
\* symbol 1, which okx had quoted before: the records have both new prices
C17_Witness ==
    /\ Len(joined) = 2
    /\ joined[1]["okx"] = "partial" /\ joined[2]["okx"] = "zero"
    /\ tickers_dict = DOMAIN price_cache
    /\ \E k \in 1..Len(spread_data) :
          SubSeq(spread_data[k], 1, 5) = <<1, "binance", "okx", 1010, 1004>>
    /\ \E k \in 1..Len(spread_data) :
          SubSeq(spread_data[k], 1, 5) = <<2, "binance", "okx", 1000, 0>>

\* C18: when the event loop runs the consumer whenever it can go on, the n-th batch
\* put is eventually the n-th batch received, for every n; a receive takes exactly
\* the batch at the head of the queue; the consumer cannot go on while the queue is
\* empty, and it can whenever the queue is not, however many batches it has received.
C18_ConsumerLiveness ==
    /\ \A n \in 1..MaxCycles :
          (Len(produced) >= n) ~> (Len(received) >= n /\ received[n] = produced[n])
    /\ [][received' # received =>
              /\ high_spread_queue # <<>>
              /\ received' = Append(received, Head(high_spread_queue))
              /\ high_spread_queue' = Tail(high_spread_queue)]_vars
    /\ [](ENABLED get_high_spread <=> high_spread_queue # <<>>)

\* two batches were put while the consumer did not run, and it has received both
C18_Witness ==
    /\ Len(produced) = 2
    /\ received = produced
    /\ high_spread_queue = <<>>
    /\ ~ENABLED get_high_spread

\* every awaited watch_tickers call of the running cycle has delivered its batch
AllDelivered == \A e \in DOMAIN tasks : tasks[e] \in Feeds(exchanges, e)

\* C19: price_cache is written only in the step in which the gather resolves, when
\* every awaited call has delivered; while a call is pending, and from the moment a
\* call has raised until the next cycle starts, the table stays as it was when the
\* cycle began, whatever the other venues have delivered.
C19_AllOrNothing ==
    /\ [][price_cache' # price_cache =>
              (pc = "gather" /\ tasks # EmptyDict /\ AllDelivered)]_vars
    /\ [][(pc = "gather" /\ ~AllDelivered) => price_cache' = price_cache]_vars
    /\ [][pc = "sleep" => price_cache' = price_cache]_vars

\* the second cycle failed after okx had delivered a batch with a price for symbol 2
\* and a new price for symbol 1: the table still has okx's prices of the first cycle
C19_Witness ==
    /\ pc = "sleep" /\ cycle = 2
    /\ Len(joined) = 1 /\ joined[1]["okx"] = "partial"
    /\ tasks["okx"] = "zero"
    /\ \E e \in DOMAIN tasks : tasks[e] = "raised"
    /\ price_cache[1]["okx"] = Some(1020)
    /\ ~HasEntry(price_cache, 2, "okx")

\* C20: the put of line 102 never waits: the condition it would wait on is false
\* whatever the queue holds, so a cycle that passes the gate puts its batch and ends
\* in the very step in which it was computed, also with batches nobody has received;
\* the engine loop is only ever suspended at the join or in the sleep of the except
\* branch, the sleep always ends and the next cycle can always start.
C20_PutNeverWaits ==
    /\ [](~QueueFull(high_spread_queue))
    /\ [][(CycleCompletes /\ Significant(spread_data', high_spread_data')) =>
              /\ PutsOne
              /\ pc' = "subscribe"]_vars
    /\ [](pc \in {"subscribe", "gather", "sleep"})
    /\ []((pc = "subscribe" /\ cycle < MaxCycles) => ENABLED Subscribe)
    /\ [](pc = "sleep" => ENABLED Recover)

\* the consumer has received nothing; a second cycle has put its batch behind the
\* first one's and the engine loop is ready to start the next cycle
C20_Witness ==
    /\ pc = "subscribe"
    /\ received = <<>>
    /\ Len(high_spread_queue) = 2
    /\ Len(produced) = 2
    /\ ~QueueFull(high_spread_queue)

====
